---- MODULE Spec2Model ----
(***************************************************************************)
(* A model of the fault package (src/fault.go): the Fault gate, the        *)
(* terminal injectors (Reject, Error, Slow), the composite injectors       *)
(* (ChainInjector, RandomInjector and the earlier ChainedInjector) and the *)
(* requests the wrapped handlers serve.                                    *)
(*                                                                         *)
(* Injectors are built bottom-up on a stack of already built injectors (a  *)
(* composite constructor takes the topmost n of them, in order).  A        *)
(* handler is a closure value; the only closure variable that is ever      *)
(* assigned after the closure is made is ChainInjector.Handler's captured  *)
(* parameter next, which lives in the heap cells.  A request runs the      *)
(* handlers it is served by; steps that touch no shared variable are       *)
(* folded into the step before them, every read and write of a cell and    *)
(* every random draw is a step of its own.                                 *)
(*                                                                         *)
(* float32 percentages and samples are counted in tenths: PercentOne is    *)
(* 1.0 and a sample of rand.Float32 is one of 0 .. PercentOne - 1.         *)
(***************************************************************************)
EXTENDS Integers, Sequences, FiniteSets, TLC

\* ---------------------------------------------------------------- bounds
\* the longest list of injectors given to a composite constructor
MaxLen == 3
\* the number of injector objects constructed in one run
MaxNodes == 4
\* the number of requests served by one wrapped handler
MaxRequests == 2
\* the largest injector tree (in objects) the Fault gate is exercised with
GateMaxNodes == 2
\* the largest injector tree (in objects) whose handler is given a request
\* while it is still serving another one (SpecConc)
ConcMaxNodes == 3

\* 1.0 in tenths
PercentOne == 10
\* the float32 that is not a number (math.NaN): every comparison with it is false
NaN == -1000
\* the PercentOfRequests values tried: -0.1, 0.0, 0.5, 1.0, 1.1 and NaN
Percents == {-1, 0, 5, PercentOne, PercentOne + 1, NaN}
\* the samples rand.Float32 may return, in [0.0, 1.0)
Samples == {0, 4, 5, PercentOne - 1}
\* the status codes tried, 999 having no reason phrase
Codes == {500, 503, 999}
\* the delays tried
Durations == {-1, 0, 2}

\* ---------------------------------------------------------------- values
\* the comparisons of float32: false when an operand is NaN
FLt(a, b) == a # NaN /\ b # NaN /\ a < b
FGt(a, b) == a # NaN /\ b # NaN /\ a > b
FLe(a, b) == a # NaN /\ b # NaN /\ a <= b

ErrNone == "nil"
ErrNilInjector == "injector cannot be nil"
ErrInvalidPercent == "percent must be 0.0 <= percent <= 1.0"
ErrInvalidHTTPCode == "not a valid http status code"

\* http.StatusText on the codes tried
StatusText(code) ==
    CASE code = 503 -> "Service Unavailable"
      [] code = 500 -> "Internal Server Error"
      [] OTHER -> ""

\* an injector object; a nil pointer of a type has isnil = TRUE
Inj(kind, isnil, id, code, text, dur, mws) ==
    [kind |-> kind, isnil |-> isnil, id |-> id, code |-> code, text |-> text,
     dur |-> dur, sleep |-> ~isnil, mws |-> mws, reporter |-> FALSE]

\* the nil interface value (no injector at all)
NilInjector == Inj("none", TRUE, 0, 0, "", 0, <<>>)

\* a nil pointer of an injector type
NilPtr(kind) == Inj(kind, TRUE, 0, 0, "", 0, <<>>)

InjectorKinds == {"Reject", "Error", "Slow", "Chain", "Random", "Chained"}

\* the number of objects of an injector tree
RECURSIVE Size(_)
Size(i) ==
    IF i.isnil THEN 0
    ELSE 1 + (LET RECURSIVE Sum(_)
                  Sum(k) == IF k = 0 THEN 0 ELSE Size(i.mws[k]) + Sum(k - 1)
              IN Sum(Len(i.mws)))

\* one observable effect of serving a request
Ev(e, k, n) == [e |-> e, k |-> k, n |-> n]

\* the downstream handler the application passes to Handler
Base == [h |-> "Base"]
NoHandler == [h |-> "None"]

VARIABLES
    stack,      \* the injectors built so far and not yet given to a composite
    nextId,     \* the identity of the next injector object
    err,        \* the error the last constructor returned
    lastOp,     \* the last constructor call: its name and its arguments
    fault,      \* the *Fault the application holds
    H,          \* the handler returned by the Handler(next) call
    cells,      \* the captured next of every ChainInjector.Handler closure
    acc,        \* which request read or wrote which cell
    reqs,       \* the requests served by H
    randLog,    \* the samples drawn from rand.Float32, and by whom
    withReporter \* whether the application sets a Reporter on its injectors

vars == <<stack, nextId, err, lastOp, fault, H, cells, acc, reqs, randLog,
          withReporter>>

\* ------------------------------------------------------- constructors
\* NewRejectInjector()
NewRejectInjector(id) ==
    [inj |-> Inj("Reject", FALSE, id, 0, "", 0, <<>>), err |-> ErrNone]

\* NewErrorInjector without the test of the reason phrase
NewErrorInjectorUnchecked(id, code) ==
    [inj |-> Inj("Error", FALSE, id, code, StatusText(code), 0, <<>>), err |-> ErrNone]

\* NewErrorInjector(code)
NewErrorInjector(id, code) ==
    LET statusText == StatusText(code) IN
    IF statusText = ""
    THEN [inj |-> NilPtr("Error"), err |-> ErrInvalidHTTPCode]
    ELSE [inj |-> Inj("Error", FALSE, id, code, statusText, 0, <<>>), err |-> ErrNone]

\* NewSlowInjector(d)
NewSlowInjector(id, d) ==
    [inj |-> Inj("Slow", FALSE, id, 0, "", d, <<>>), err |-> ErrNone]

\* NewChainInjector(is...)
NewChainInjector(id, is) ==
    [inj |-> Inj("Chain", FALSE, id, 0, "", 0, is), err |-> ErrNone]

\* NewRandomInjector(is...)
NewRandomInjector(id, is) ==
    [inj |-> Inj("Random", FALSE, id, 0, "", 0, is), err |-> ErrNone]

\* NewChainedInjector(is...): a call with no argument passes a nil slice, a
\* call NewChainedInjector([]Injector{}...) an empty one that is not nil
NewChainedInjector(id, is, isNilSlice) ==
    IF isNilSlice
    THEN [inj |-> NilPtr("Chained"), err |-> ErrNilInjector]
    ELSE [inj |-> Inj("Chained", FALSE, id, 0, "", 0, is), err |-> ErrNone]

\* (i *XInjector) SetReporter(r)
SetReporterOf(i, r) == [i EXCEPT !.reporter = r]

\* the Options of a Fault
Options(enabled, injector, percent) ==
    [Enabled |-> enabled, Injector |-> injector, PercentOfRequests |-> percent]

NoOptions == Options(FALSE, NilInjector, 0)

\* a *Fault: "none" before any is made, "nil" the nil pointer
FaultOf(o) == [state |-> "ok", opt |-> o]
NilFault == [state |-> "nil", opt |-> NoOptions]
NoFault == [state |-> "none", opt |-> NoOptions]

\* NewFault(o)
NewFault(o) ==
    IF o.Injector = NilInjector
    THEN [fault |-> NilFault, err |-> ErrNilInjector]
    ELSE IF FLt(o.PercentOfRequests, 0) \/ FGt(o.PercentOfRequests, PercentOne)
    THEN [fault |-> NilFault, err |-> ErrInvalidPercent]
    ELSE [fault |-> FaultOf(o), err |-> ErrNone]

\* percentDo without the test of the upper bound
percentDoUnbounded(f, rn) == FLt(rn, f.opt.PercentOfRequests)

\* percentDo with the sample compared by <= instead of <
percentDoInclusive(f, rn) ==
    FLe(rn, f.opt.PercentOfRequests) /\ FLe(f.opt.PercentOfRequests, PercentOne)

\* (f *Fault) percentDo(), rn being the sample rand.Float32 returned
percentDo(f, rn) ==
    FLt(rn, f.opt.PercentOfRequests) /\ FLe(f.opt.PercentOfRequests, PercentOne)

\* ------------------------------------------------------------ handlers
\* the closure an injector's Handler(next) returns.  ChainInjector.Handler's
\* closure assigns its captured next, so that variable is a heap cell.
Wrap(i, next, heap) ==
    IF i.kind = "Chain"
    THEN [h |-> [h |-> "Chain", inj |-> i, next |-> NoHandler, cell |-> Len(heap) + 1],
          cells |-> Append(heap, next)]
    ELSE [h |-> [h |-> i.kind, inj |-> i, next |-> next, cell |-> 0],
          cells |-> heap]

\* the closure Fault.Handler returns when it does not run the injector
PassThrough(next) == [h |-> "Pass", inj |-> NilInjector, next |-> next, cell |-> 0]

\* the loop of ChainedInjector.Handler: chain = i.middlewares[idx](chain),
\* idx from the last middleware down to the first
RECURSIVE WrapAll(_, _, _, _)
WrapAll(mws, idx, chain, heap) ==
    IF idx = 0 THEN [h |-> chain, cells |-> heap]
    ELSE LET w == Wrap(mws[idx], chain, heap)
         IN WrapAll(mws, idx - 1, w.h, w.cells)

\* reportWithMessage(reporter, r, message)
reportWithMessage(i, trace) ==
    IF i.reporter THEN Append(trace, Ev("report", i.kind, i.id)) ELSE trace

\* updateRequestContextValue(r, value)
updateRequestContextValue(kind, trace) == Append(trace, Ev("ctx", kind, 0))

\* a request: where it is, the handler it is in, and what it has done
Req(pc, h, idx, trace, outcome, picks) ==
    [pc |-> pc, h |-> h, idx |-> idx, tmp |-> NoHandler, trace |-> trace,
     outcome |-> outcome, picks |-> picks]

Entered(h, trace) == Append(trace, Ev("enter", h.h, h.inj.id))

\* RejectInjector.Handler's closure without the panic
ServeRejectNoPanic(h, trace) ==
    [trace |-> IF ~h.inj.isnil THEN reportWithMessage(h.inj, trace) ELSE trace,
     returns |-> FALSE, outcome |-> ""]

\* the body of RejectInjector.Handler's closure
ServeReject(h, trace) ==
    LET t1 == IF ~h.inj.isnil THEN reportWithMessage(h.inj, trace) ELSE trace
    IN [trace |-> Append(t1, Ev("abort", "Reject", h.inj.id)), returns |-> TRUE,
        outcome |-> "abort"]

\* http.Error(w, error, code): the status code, and the text followed by a
\* newline as the body
httpError(trace, error, code) == Append(trace, Ev("write", error \o "\n", code))

\* ErrorInjector.Handler's closure without the return after http.Error
ServeErrorNoReturn(h, trace) ==
    IF ~h.inj.isnil /\ StatusText(h.inj.code) # ""
    THEN [trace |-> httpError(reportWithMessage(h.inj, trace), h.inj.text, h.inj.code),
          returns |-> FALSE, outcome |-> ""]
    ELSE [trace |-> trace, returns |-> FALSE, outcome |-> ""]

\* the body of ErrorInjector.Handler's closure
ServeError(h, trace) ==
    IF ~h.inj.isnil
    THEN LET t1 == reportWithMessage(h.inj, trace) IN
         IF StatusText(h.inj.code) # ""
         THEN [trace |-> httpError(t1, h.inj.text, h.inj.code),
               returns |-> TRUE, outcome |-> "written"]
         ELSE [trace |-> t1, returns |-> FALSE, outcome |-> ""]
    ELSE [trace |-> trace, returns |-> FALSE, outcome |-> ""]

\* SlowInjector.Handler's closure sleeping only for a positive duration
ServeSlowPositiveOnly(h, trace) ==
    LET t1 == IF ~h.inj.isnil /\ h.inj.sleep /\ h.inj.dur > 0
              THEN Append(reportWithMessage(h.inj, trace),
                          Ev("sleep", "Slow", h.inj.dur))
              ELSE trace
    IN [trace |-> updateRequestContextValue("Slow", t1), returns |-> FALSE,
        outcome |-> ""]

\* the body of SlowInjector.Handler's closure, up to its call of next
ServeSlow(h, trace) ==
    LET t1 == IF ~h.inj.isnil /\ h.inj.sleep
              THEN Append(reportWithMessage(h.inj, trace),
                          Ev("sleep", "Slow", h.inj.dur))
              ELSE trace
    IN [trace |-> updateRequestContextValue("Slow", t1), returns |-> FALSE,
        outcome |-> ""]

\* h.ServeHTTP(w, r) as far as it goes without reading or writing a cell and
\* without drawing a random number
RECURSIVE RunLocal(_, _, _, _)
RunLocal(h, trace, picks, heap) ==
    CASE h.h = "Base" ->
           [req |-> Req("done", h, 0, Append(trace, Ev("next", "", 0)), "ok", picks),
            cells |-> heap]
      [] h.h = "Pass" -> RunLocal(h.next, trace, picks, heap)
      [] h.h \in {"Reject", "Error", "Slow"} ->
           LET r == CASE h.h = "Reject" -> ServeReject(h, Entered(h, trace))
                      [] h.h = "Error" -> ServeError(h, Entered(h, trace))
                      [] OTHER -> ServeSlow(h, Entered(h, trace))
           IN IF r.returns
              THEN [req |-> Req("done", h, 0, r.trace, r.outcome, picks), cells |-> heap]
              ELSE RunLocal(h.next, r.trace, picks, heap)
      [] h.h = "Chained" ->
           \* ChainedInjector.Handler: chain is a local of the closure
           IF ~h.inj.isnil
           THEN LET w == WrapAll(h.inj.mws, Len(h.inj.mws), h.next, heap)
                IN RunLocal(w.h, Entered(h, trace), picks, w.cells)
           ELSE RunLocal(h.next, Entered(h, trace), picks, heap)
      [] h.h = "Random" ->
           IF ~h.inj.isnil /\ Len(h.inj.mws) > 0
           THEN [req |-> Req("pick", h, 0, Entered(h, trace), "", picks), cells |-> heap]
           ELSE RunLocal(h.next, Entered(h, trace), picks, heap)
      [] OTHER ->
           \* ChainInjector.Handler: the report and the context tag, then the loop
           IF ~h.inj.isnil
           THEN [req |-> Req(IF Len(h.inj.mws) > 0 THEN "read" ELSE "call", h,
                             Len(h.inj.mws),
                             updateRequestContextValue("Chain",
                                 reportWithMessage(h.inj, Entered(h, trace))),
                             "", picks),
                 cells |-> heap]
           ELSE [req |-> Req("call", h, 0, Entered(h, trace), "", picks), cells |-> heap]

\* ------------------------------------------------------------- the state
Op(name, o, code, n) == [op |-> name, o |-> o, code |-> code, n |-> n]

Init ==
    /\ stack = <<>>
    /\ nextId = 1
    /\ err = ErrNone
    /\ lastOp = Op("", NoOptions, 0, 0)
    /\ fault = NoFault
    /\ H = NoHandler
    /\ cells = <<>>
    /\ acc = {}
    /\ reqs = <<>>
    /\ randLog = <<>>
    /\ withReporter \in BOOLEAN

\* the delays of the Slow injectors of a tree
RECURSIVE SlowDurs(_)
SlowDurs(i) ==
    IF i.kind = "Slow" THEN {i.dur}
    ELSE UNION {SlowDurs(i.mws[k]) : k \in 1 .. Len(i.mws)}

\* injectors are built and configured before the handler is made; the
\* application sets its Reporter on each injector right after building it
\* (a ChainedInjector has no SetReporter)
Configured ==
    IF stack = <<>> THEN TRUE
    ELSE stack[Len(stack)].kind = "Chained"
            \/ stack[Len(stack)].reporter = withReporter
Setup == H = NoHandler /\ fault = NoFault /\ Configured

Top == stack[Len(stack)]

\* the result of a constructor call: the injector is kept when there is no error
Built(r, rest, op) ==
    /\ stack' = IF r.err = ErrNone THEN Append(rest, r.inj) ELSE rest
    /\ nextId' = IF r.err = ErrNone THEN nextId + 1 ELSE nextId
    /\ err' = r.err
    /\ lastOp' = op
    /\ UNCHANGED <<fault, H, cells, acc, reqs, randLog, withReporter>>

\* a ChainedInjector is no Injector of the later interface (it has no
\* SetReporter), so nothing is built on top of one; a composite of no
\* injectors is used on its own, never as a part of another composite
CanBuild ==
    /\ Setup /\ nextId <= MaxNodes
    /\ IF stack = <<>> THEN TRUE
       ELSE /\ stack[Len(stack)].kind # "Chained"
            /\ stack[Len(stack)].kind \in {"Chain", "Random"}
                  => stack[Len(stack)].mws # <<>>

\* the topmost n injectors of the stack, in the order they were built
TopN(n) == SubSeq(stack, Len(stack) - n + 1, Len(stack))
Below(n) == SubSeq(stack, 1, Len(stack) - n)

DoNewRejectInjector ==
    /\ CanBuild /\ Len(stack) < MaxLen
    /\ Built(NewRejectInjector(nextId), stack, Op("NewRejectInjector", NoOptions, 0, 0))

DoNewErrorInjector ==
    /\ CanBuild /\ Len(stack) < MaxLen
    /\ \E code \in Codes :
          Built(NewErrorInjector(nextId, code), stack,
                Op("NewErrorInjector", NoOptions, code, 0))

DoNewSlowInjector ==
    /\ CanBuild /\ Len(stack) < MaxLen
    /\ \E d \in Durations :
          \* the Slow injectors of one run share their delay
          /\ \A k \in 1 .. Len(stack) : SlowDurs(stack[k]) \subseteq {d}
          /\ Built(NewSlowInjector(nextId, d), stack,
                Op("NewSlowInjector", NoOptions, d, 0))

DoNewChainInjector ==
    /\ CanBuild
    /\ \E n \in 0 .. Len(stack) :
          /\ n <= MaxLen
          /\ n = 0 => stack = <<>>
          /\ Built(NewChainInjector(nextId, TopN(n)), Below(n),
                   Op("NewChainInjector", NoOptions, 0, n))

DoNewRandomInjector ==
    /\ CanBuild
    /\ \E n \in 0 .. Len(stack) :
          /\ n <= MaxLen
          /\ n = 0 => stack = <<>>
          /\ Built(NewRandomInjector(nextId, TopN(n)), Below(n),
                   Op("NewRandomInjector", NoOptions, 0, n))

DoNewChainedInjector ==
    /\ CanBuild
    /\ \E n \in 0 .. Len(stack), isNilSlice \in BOOLEAN :
          /\ n <= MaxLen
          /\ n = 0 => stack = <<>>
          /\ isNilSlice => n = 0
          /\ Built(NewChainedInjector(nextId, TopN(n), isNilSlice), Below(n),
                   Op("NewChainedInjector", NoOptions, 0, n))

\* SetReporter on the injector built last, before it is used
DoSetReporter ==
    /\ H = NoHandler /\ fault = NoFault
    /\ Len(stack) > 0 /\ Top.kind # "Chained" /\ Top.reporter # withReporter
    /\ stack' = [stack EXCEPT ![Len(stack)] = SetReporterOf(Top, withReporter)]
    /\ UNCHANGED <<nextId, err, lastOp, fault, H, cells, acc, reqs, randLog,
                   withReporter>>

\* the injectors a Fault is given: none, a nil pointer, or the one built
GateInjectors ==
    IF stack = <<>> THEN {NilInjector, NilPtr("Slow")}
    ELSE IF Len(stack) = 1 /\ Size(Top) <= GateMaxNodes THEN {Top}
    ELSE {}

\* f, err := NewFault(o)
DoNewFault ==
    /\ Setup
    /\ \E enabled \in BOOLEAN, i \in GateInjectors, p \in Percents :
          LET o == Options(enabled, i, p)
              r == NewFault(o)
          IN /\ fault' = r.fault
             /\ err' = r.err
             /\ lastOp' = Op("NewFault", o, 0, 0)
    /\ UNCHANGED <<stack, nextId, H, cells, acc, reqs, randLog, withReporter>>

\* f := &Fault{opt: o}, with no validation
DoFaultLiteral ==
    /\ Setup
    /\ \E enabled \in BOOLEAN, i \in GateInjectors, p \in Percents :
          LET o == Options(enabled, i, p)
          IN /\ fault' = FaultOf(o)
             /\ err' = ErrNone
             /\ lastOp' = Op("Fault", o, 0, 0)
    /\ UNCHANGED <<stack, nextId, H, cells, acc, reqs, randLog, withReporter>>

\* Fault.Handler without the test of Enabled
FaultHandlerAlwaysOn(f, next, rn, heap) ==
    IF f.state # "nil"
    THEN IF percentDo(f, rn) /\ f.opt.Injector # NilInjector
         THEN [w |-> Wrap(f.opt.Injector, next, heap), drawn |-> TRUE]
         ELSE [w |-> [h |-> PassThrough(next), cells |-> heap], drawn |-> TRUE]
    ELSE [w |-> [h |-> PassThrough(next), cells |-> heap], drawn |-> FALSE]

\* (f *Fault) Handler(next): the sample is drawn here, by percentDo
FaultHandler(f, next, rn, heap) ==
    IF f.state # "nil" /\ f.opt.Enabled
    THEN IF percentDo(f, rn) /\ f.opt.Injector # NilInjector
         THEN [w |-> Wrap(f.opt.Injector, next, heap), drawn |-> TRUE]
         ELSE [w |-> [h |-> PassThrough(next), cells |-> heap], drawn |-> TRUE]
    ELSE [w |-> [h |-> PassThrough(next), cells |-> heap], drawn |-> FALSE]

\* H := f.Handler(next)
DoFaultHandler ==
    /\ H = NoHandler /\ fault # NoFault
    /\ \E rn \in Samples :
          LET r == FaultHandler(fault, Base, rn, cells)
          IN /\ H' = r.w.h
             /\ cells' = r.w.cells
             /\ randLog' = IF r.drawn
                           THEN Append(randLog, [by |-> 0, rn |-> rn])
                           ELSE randLog
    /\ UNCHANGED <<stack, nextId, err, lastOp, fault, acc, reqs, withReporter>>

\* H := i.Handler(next), i being the injector built or a nil pointer
DoInjectorHandler ==
    /\ Setup
    /\ \E i \in IF stack = <<>> THEN {NilPtr(k) : k \in InjectorKinds}
                ELSE IF Len(stack) = 1 THEN {Top}
                ELSE {} :
          LET w == Wrap(i, Base, cells)
          IN /\ H' = w.h
             /\ cells' = w.cells
    /\ UNCHANGED <<stack, nextId, err, lastOp, fault, acc, reqs, randLog,
                   withReporter>>

\* --------------------------------------------------------------- requests
Served == H # NoHandler

InFlight == {q \in 1 .. Len(reqs) : reqs[q].pc # "done"}

\* the server calls H.ServeHTTP(w, r) for a new request
ServeHTTP ==
    /\ Served /\ Len(reqs) < MaxRequests
    /\ LET r == RunLocal(H, <<>>, <<>>, cells)
       IN /\ reqs' = Append(reqs, r.req)
          /\ cells' = r.cells
    /\ UNCHANGED <<stack, nextId, err, lastOp, fault, H, acc, randLog, withReporter>>

\* a request that arrives when no other is being served
StartRequest == InFlight = {} /\ ServeHTTP

\* a request that arrives while another is being served (the server runs
\* each request on a goroutine of its own)
StartConcurrent ==
    /\ InFlight # {} /\ Size(H.inj) <= ConcMaxNodes
    /\ ServeHTTP

\* the middleware after the one picked
PickedNeighbour(i, idx) == i.mws[((idx + 1) % Len(i.mws)) + 1]

\* i.middlewares[idx], idx counted from 0
Picked(i, idx) == i.mws[idx + 1]

\* RandomInjector.Handler's closure: i.randF(len(i.middlewares)) returns idx
RandomPick(q, idx) ==
    /\ reqs[q].pc = "pick"
    /\ LET r == reqs[q]
           i == r.h.inj
       IN /\ idx < Len(i.mws)
          /\ LET t1 == updateRequestContextValue("Random", reportWithMessage(i, r.trace))
                 w == Wrap(Picked(i, idx), r.h.next, cells)
                 n == RunLocal(w.h, t1, Append(r.picks, [id |-> i.id, idx |-> idx]),
                               w.cells)
             IN /\ reqs' = [reqs EXCEPT ![q] = n.req]
                /\ cells' = n.cells
    /\ UNCHANGED <<stack, nextId, err, lastOp, fault, H, acc, randLog, withReporter>>

\* ChainInjector.Handler's loop, the read of next in next = i.middlewares[idx](next)
ChainRead(q) ==
    /\ reqs[q].pc = "read"
    /\ reqs' = [reqs EXCEPT ![q].tmp = cells[reqs[q].h.cell], ![q].pc = "write"]
    /\ acc' = acc \cup {[cell |-> reqs[q].h.cell, q |-> q, mode |-> "r"]}
    /\ UNCHANGED <<stack, nextId, err, lastOp, fault, H, cells, randLog, withReporter>>

\* the call of the middleware and the assignment to next
ChainWrite(q) ==
    /\ reqs[q].pc = "write"
    /\ LET r == reqs[q]
           w == Wrap(r.h.inj.mws[r.idx], r.tmp, cells)
       IN /\ cells' = [w.cells EXCEPT ![r.h.cell] = w.h]
          /\ reqs' = [reqs EXCEPT ![q].tmp = NoHandler, ![q].idx = r.idx - 1,
                                  ![q].pc = IF r.idx - 1 >= 1 THEN "read" ELSE "call"]
          /\ acc' = acc \cup {[cell |-> r.h.cell, q |-> q, mode |-> "w"]}
    /\ UNCHANGED <<stack, nextId, err, lastOp, fault, H, randLog, withReporter>>

\* ChainInjector.Handler's closure returning without the call of next
ChainCallDropped(q) ==
    /\ reqs[q].pc = "call"
    /\ reqs' = [reqs EXCEPT ![q].pc = "done", ![q].outcome = "ok"]
    /\ acc' = acc \cup {[cell |-> reqs[q].h.cell, q |-> q, mode |-> "r"]}
    /\ UNCHANGED <<stack, nextId, err, lastOp, fault, H, cells, randLog, withReporter>>

\* next.ServeHTTP(w, r) at the end of ChainInjector.Handler's closure
ChainCall(q) ==
    /\ reqs[q].pc = "call"
    /\ LET r == reqs[q]
           n == RunLocal(cells[r.h.cell], r.trace, r.picks, cells)
       IN /\ reqs' = [reqs EXCEPT ![q] = n.req]
          /\ cells' = n.cells
          /\ acc' = acc \cup {[cell |-> r.h.cell, q |-> q, mode |-> "r"]}
    /\ UNCHANGED <<stack, nextId, err, lastOp, fault, H, randLog, withReporter>>

Next ==
    \/ DoNewRejectInjector
    \/ DoNewErrorInjector
    \/ DoNewSlowInjector
    \/ DoNewChainInjector
    \/ DoNewRandomInjector
    \/ DoNewChainedInjector
    \/ DoSetReporter
    \/ DoNewFault
    \/ DoFaultLiteral
    \/ DoFaultHandler
    \/ DoInjectorHandler
    \/ StartRequest
    \/ \E q \in 1 .. MaxRequests, idx \in 0 .. MaxLen :
          q <= Len(reqs) /\ RandomPick(q, idx)
    \/ \E q \in 1 .. MaxRequests : q <= Len(reqs) /\ ChainRead(q)
    \/ \E q \in 1 .. MaxRequests : q <= Len(reqs) /\ ChainWrite(q)
    \/ \E q \in 1 .. MaxRequests : q <= Len(reqs) /\ ChainCall(q)

\* requests served one after the other
Spec == Init /\ [][Next]_vars

\* requests served concurrently
NextConc == Next \/ StartConcurrent

SpecConc == Init /\ [][NextConc]_vars

\* ------------------------------------------------------------ the claims
\* the identities of the objects of an injector tree
RECURSIVE Ids(_)
Ids(i) ==
    (IF i.isnil THEN {} ELSE {i.id})
        \cup UNION {Ids(i.mws[k]) : k \in 1 .. Len(i.mws)}

\* the identities of the injectors whose handlers a request ran, in order
RECURSIVE EnteredIds(_)
EnteredIds(trace) ==
    IF trace = <<>> THEN <<>>
    ELSE IF trace[1].e = "enter" THEN <<trace[1].n>> \o EnteredIds(Tail(trace))
    ELSE EnteredIds(Tail(trace))

\* how many events of a kind a request has
Count(trace, e) == Cardinality({k \in 1 .. Len(trace) : trace[k].e = e})

\* how often a request ran the handler of the injector id
Runs(trace, id) ==
    Cardinality({k \in 1 .. Len(trace) : trace[k].e = "enter" /\ trace[k].n = id})

\* a request that ran an injector's handler (and not only next)
RanInjector(q) == Count(reqs[q].trace, "enter") > 0

Done(q) == reqs[q].pc = "done"

\* what serving a request by next alone does
NextAlone == <<Ev("next", "", 0)>>

\* H was made by the Handler of a Fault
ByFault == Served /\ fault # NoFault

\* H was made by the Handler of an injector, with no Fault
ByInjector == Served /\ fault = NoFault

\* C1: every request served by the handler of an enabled Fault draws its own
\* sample r and runs the injector's handler exactly when r < p.
C1_DecisionPerRequest ==
    (ByFault /\ fault.state = "ok" /\ fault.opt.Enabled
        /\ fault.opt.Injector # NilInjector)
    => \A q \in 1 .. Len(reqs) :
          \E k \in 1 .. Len(randLog) :
             /\ randLog[k].by = q
             /\ RanInjector(q) <=> FLt(randLog[k].rn, fault.opt.PercentOfRequests)

\* a chain whose sub-injectors are all Slow injectors: none ends the request
AllSlow(i) == \A k \in 1 .. Len(i.mws) : i.mws[k].kind = "Slow"

\* the identities of the sub-injectors of a composite, in the order given
SubIds(i) == [k \in 1 .. Len(i.mws) |-> i.mws[k].id]

\* C2: a request served by the handler of a ChainInjector built from [A, B, C],
\* none of which ends the request, runs A, then B, then C, then next, each once.
C2_ChainOrder ==
    (ByInjector /\ H.h = "Chain" /\ ~H.inj.isnil /\ AllSlow(H.inj))
    => \A q \in 1 .. Len(reqs) :
          Done(q) => /\ EnteredIds(reqs[q].trace) = <<H.inj.id>> \o SubIds(H.inj)
                     /\ Count(reqs[q].trace, "next") = 1
                     /\ reqs[q].trace[Len(reqs[q].trace)].e = "next"

\* the first position of a chain whose injector ends the request, 0 if none
FirstEnding(i) ==
    LET ending == {k \in 1 .. Len(i.mws) : i.mws[k].kind \in {"Reject", "Error"}}
    IN IF ending = {} THEN 0 ELSE CHOOSE k \in ending : \A j \in ending : k <= j

\* C3: when the sub-injector at position k of a chain ends the request (the
\* ones before it being Slow injectors), a request runs the sub-injectors up
\* to k, none after k, and never next.
C3_EarlyTermination ==
    (ByInjector /\ H.h = "Chain" /\ ~H.inj.isnil /\ FirstEnding(H.inj) > 0
        /\ \A j \in 1 .. Len(H.inj.mws) :
              H.inj.mws[j].kind \in {"Reject", "Error", "Slow"})
    => \A q \in 1 .. Len(reqs) :
          Done(q) =>
             LET k == FirstEnding(H.inj) IN
             /\ \A j \in 1 .. Len(H.inj.mws) :
                   (Runs(reqs[q].trace, H.inj.mws[j].id) > 0) <=> j <= k
             /\ Count(reqs[q].trace, "next") = 0

\* an injector tree with no RandomInjector: what it does is determined
RECURSIVE NoRandom(_)
NoRandom(i) ==
    /\ i.kind # "Random"
    /\ \A k \in 1 .. Len(i.mws) : NoRandom(i.mws[k])

\* C4: the k-th request served by an injector's handler does exactly what the
\* first request did.
C4_Stateless ==
    (ByInjector /\ NoRandom(H.inj))
    => \A q \in 1 .. Len(reqs) :
          (Done(q) /\ Done(1)) => reqs[q].trace = reqs[1].trace

\* C5: no step of a request writes a variable that a request served at the
\* same time reads or writes.
C5_NoSharedWrite ==
    \A a \in acc, b \in acc :
       (a.cell = b.cell /\ a.q # b.q /\ a.q \in InFlight /\ b.q \in InFlight)
       => (a.mode = "r" /\ b.mode = "r")

\* C6: the handler of a Fault with Enabled = false does what next does, for
\* every request, draws no sample and never runs the injector.
C6_DisabledIsNext ==
    (ByFault /\ fault.state = "ok" /\ ~fault.opt.Enabled)
    => /\ randLog = <<>>
       /\ \A q \in 1 .. Len(reqs) :
             /\ Done(q) /\ reqs[q].outcome = "ok"
             /\ reqs[q].trace = NextAlone

\* a disabled Fault with an injector and percent 1.0 has served every request
C6_Witness ==
    /\ ByFault /\ fault.state = "ok" /\ ~fault.opt.Enabled
    /\ fault.opt.Injector.kind = "Reject" /\ ~fault.opt.Injector.isnil
    /\ fault.opt.PercentOfRequests = PercentOne
    /\ Len(reqs) = MaxRequests /\ \A q \in 1 .. Len(reqs) : Done(q)

\* C7: an enabled Fault with an injector never runs it on any request when
\* p = 0.0 and runs it on every request when p = 1.0, whatever the sample.
C7_ZeroNeverOneAlways ==
    (ByFault /\ fault.state = "ok" /\ fault.opt.Enabled
        /\ fault.opt.Injector # NilInjector)
    => /\ fault.opt.PercentOfRequests = 0
           => \A q \in 1 .. Len(reqs) : ~RanInjector(q) /\ reqs[q].trace = NextAlone
       /\ fault.opt.PercentOfRequests = PercentOne
           => \A q \in 1 .. Len(reqs) :
                 /\ reqs[q].trace[1] = Ev("enter", fault.opt.Injector.kind,
                                          fault.opt.Injector.id)
                 /\ Done(q) => Runs(reqs[q].trace, fault.opt.Injector.id) >= 1

\* p = 1.0, the largest sample drawn, and every request ran the injector
C7_Witness ==
    /\ ByFault /\ fault.state = "ok" /\ fault.opt.Enabled
    /\ fault.opt.Injector.kind = "Error" /\ ~fault.opt.Injector.isnil
    /\ fault.opt.PercentOfRequests = PercentOne
    /\ randLog = <<[by |-> 0, rn |-> PercentOne - 1]>>
    /\ Len(reqs) = MaxRequests
    /\ \A q \in 1 .. Len(reqs) : Done(q) /\ reqs[q].outcome = "written"

\* a percent within [0.0, 1.0]
InRange(p) == p # NaN /\ 0 <= p /\ p <= PercentOne

\* C8: NewFault fails, and returns no Fault, exactly when the injector is nil
\* or the percent is outside [0.0, 1.0]; a Fault it returns holds the options
\* unchanged, with an injector and a percent within [0.0, 1.0].
C8_NewFaultValidates ==
    lastOp.op = "NewFault"
    => LET o == lastOp.o
           bad == o.Injector = NilInjector \/ ~InRange(o.PercentOfRequests)
       IN /\ (err # ErrNone) <=> bad
          /\ bad => fault = NilFault
          /\ ~bad => /\ fault = FaultOf(o)
                     /\ fault.opt.Injector # NilInjector
                     /\ InRange(fault.opt.PercentOfRequests)

\* the picks of the RandomInjector id among the picks of a request
PicksOf(q, id) == SelectSeq(reqs[q].picks, LAMBDA p : p.id = id)

\* C9: a request served by the handler of a RandomInjector with N >= 1
\* sub-injectors runs exactly one of them, the one at the index in [0, N) its
\* random source returned, and every index of [0, N) may be returned whatever
\* was returned before; with N = 0 it runs next alone, with no report.
C9_RandomRunsOne ==
    (ByInjector /\ H.h = "Random" /\ ~H.inj.isnil)
    => LET i == H.inj
           N == Len(i.mws)
       IN \A q \in 1 .. Len(reqs) :
             IF N = 0
             THEN /\ Done(q) /\ reqs[q].outcome = "ok"
                  /\ reqs[q].trace = <<Ev("enter", "Random", i.id)>> \o NextAlone
             ELSE IF reqs[q].pc = "pick" /\ reqs[q].h = H
             THEN /\ PicksOf(q, i.id) = <<>>
                  /\ EnteredIds(reqs[q].trace) = <<i.id>>
                  /\ \A idx \in 0 .. N - 1 : ENABLED RandomPick(q, idx)
             ELSE /\ Len(PicksOf(q, i.id)) = 1
                  /\ LET idx == PicksOf(q, i.id)[1].idx IN
                     /\ idx \in 0 .. N - 1
                     /\ Runs(reqs[q].trace, i.mws[idx + 1].id) = 1
                     /\ \A j \in 1 .. N :
                           j # idx + 1 =>
                              \A id \in Ids(i.mws[j]) : Runs(reqs[q].trace, id) = 0

\* two requests of a RandomInjector of three have run different sub-injectors,
\* the second one the first of the list
C9_Witness ==
    /\ ByInjector /\ H.h = "Random" /\ ~H.inj.isnil /\ Len(H.inj.mws) = 3
    /\ Len(reqs) = 2 /\ Done(1) /\ Done(2)
    /\ PicksOf(1, H.inj.id)[1].idx = 2
    /\ PicksOf(2, H.inj.id)[1].idx = 0

\* H was made by Handler on a nil *Fault or on a nil pointer of an injector type
NilReceiver ==
    \/ ByFault /\ fault.state = "nil"
    \/ ByInjector /\ H.inj.isnil

\* C10: the handler made by Handler(next) on a nil *Fault or on a nil pointer
\* of an injector type gives every request to next, exactly once, and never
\* aborts it.
C10_NilIsPassThrough ==
    NilReceiver
    => \A q \in 1 .. Len(reqs) :
          Done(q) => /\ reqs[q].outcome = "ok"
                     /\ Count(reqs[q].trace, "next") = 1
                     /\ Count(reqs[q].trace, "abort") = 0

\* the start of what a request does in the handler of the injector i: it
\* enters the handler and the injector reports to its Reporter, if it has one
Started(i) ==
    <<Ev("enter", i.kind, i.id)>>
        \o (IF i.reporter THEN <<Ev("report", i.kind, i.id)>> ELSE <<>>)

\* C11: every request served by the handler of a RejectInjector reports the
\* start, then ends aborted (panic(http.ErrAbortHandler)): nothing is written
\* and next is never called.
C11_RejectAborts ==
    (Served /\ H.h = "Reject" /\ ~H.inj.isnil)
    => \A q \in 1 .. Len(reqs) :
          /\ Done(q) /\ reqs[q].outcome = "abort"
          /\ reqs[q].trace = Started(H.inj) \o <<Ev("abort", "Reject", H.inj.id)>>
          /\ Count(reqs[q].trace, "write") = 0
          /\ Count(reqs[q].trace, "next") = 0

\* a RejectInjector with a Reporter has aborted every request
C11_Witness ==
    /\ ByInjector /\ H.h = "Reject" /\ ~H.inj.isnil /\ H.inj.reporter
    /\ Len(reqs) = MaxRequests
    /\ \A q \in 1 .. Len(reqs) : Done(q) /\ reqs[q].outcome = "abort"

\* the handler of an ErrorInjector built by NewErrorInjector
ErrorHandler == Served /\ H.h = "Error" /\ ~H.inj.isnil /\ StatusText(H.inj.code) # ""

\* C12: every request served by the handler of an ErrorInjector built with
\* code c gets the status c and a body that is the reason phrase of c, and
\* next is never called.
C12_ErrorResponds ==
    ErrorHandler
    => \A q \in 1 .. Len(reqs) :
          /\ Done(q) /\ reqs[q].outcome = "written"
          /\ reqs[q].trace = Started(H.inj)
                \o <<Ev("write", StatusText(H.inj.code), H.inj.code)>>
          /\ Count(reqs[q].trace, "next") = 0

\* C12, amended: every request served by the handler of an ErrorInjector built
\* with code c gets the status c and a body that is the reason phrase of c
\* followed by a newline (what http.Error writes), and next is never called.
C12_ErrorRespondsLine ==
    ErrorHandler
    => \A q \in 1 .. Len(reqs) :
          /\ Done(q) /\ reqs[q].outcome = "written"
          /\ reqs[q].trace = Started(H.inj)
                \o <<Ev("write", StatusText(H.inj.code) \o "\n", H.inj.code)>>
          /\ Count(reqs[q].trace, "next") = 0

\* an ErrorInjector built with 503 has answered every request
C12_Witness ==
    /\ ByInjector /\ H.h = "Error" /\ ~H.inj.isnil /\ H.inj.code = 503
    /\ Len(reqs) = MaxRequests
    /\ \A q \in 1 .. Len(reqs) :
          /\ Done(q)
          /\ reqs[q].trace[Len(reqs[q].trace)].k = "Service Unavailable\n"

\* a step that is a call of NewErrorInjector
IsNewErrorInjector ==
    /\ lastOp'.op = "NewErrorInjector"
    /\ lastOp' # lastOp \/ nextId' # nextId \/ err' # err

\* C13: NewErrorInjector(code) fails with ErrInvalidHTTPCode, and returns no
\* injector, exactly when code has no reason phrase; otherwise it returns an
\* ErrorInjector holding the code and its reason phrase.
C13_NewErrorInjectorValidates ==
    [][IsNewErrorInjector
        => LET code == lastOp'.code IN
           IF StatusText(code) = ""
           THEN err' = ErrInvalidHTTPCode /\ stack' = stack /\ nextId' = nextId
           ELSE /\ err' = ErrNone
                /\ stack' = Append(stack, Inj("Error", FALSE, nextId, code,
                                              StatusText(code), 0, <<>>))]_vars

\* NewErrorInjector(999) has failed after NewErrorInjector(503) had succeeded
C13_Witness ==
    /\ lastOp.op = "NewErrorInjector" /\ lastOp.code = 999
    /\ err = ErrInvalidHTTPCode
    /\ Len(stack) = 1 /\ stack[1].kind = "Error" /\ stack[1].code = 503
    /\ stack[1].text = "Service Unavailable"

\* C14: every request served by the handler of a SlowInjector with delay D
\* calls the sleep function once, with D (zero and negative included), then
\* calls next, once, and ends as next ends it.
C14_SlowDelaysThenNext ==
    (Served /\ H.h = "Slow" /\ ~H.inj.isnil)
    => \A q \in 1 .. Len(reqs) :
          /\ Done(q) /\ reqs[q].outcome = "ok"
          /\ reqs[q].trace = Started(H.inj)
                \o <<Ev("sleep", "Slow", H.inj.dur), Ev("ctx", "Slow", 0)>>
                \o NextAlone

\* a SlowInjector with a negative delay has served every request
C14_Witness ==
    /\ ByInjector /\ H.h = "Slow" /\ ~H.inj.isnil /\ H.inj.dur < 0
    /\ Len(reqs) = MaxRequests
    /\ \A q \in 1 .. Len(reqs) : Done(q) /\ Count(reqs[q].trace, "sleep") = 1

\* C15: a chain constructor called with no sub-injector (NewChainInjector(),
\* NewChainedInjector()) returns no error and a chain injector of no
\* sub-injectors.
C15_EmptyChainPermitted ==
    (lastOp.op \in {"NewChainInjector", "NewChainedInjector"} /\ lastOp.n = 0)
    => /\ err = ErrNone
       /\ stack # <<>>
       /\ Top.kind \in {"Chain", "Chained"} /\ ~Top.isnil /\ Top.mws = <<>>

\* the handler of a chain injector (of either type) of no sub-injectors
EmptyChain ==
    ByInjector /\ H.h \in {"Chain", "Chained"} /\ ~H.inj.isnil /\ H.inj.mws = <<>>

\* C16: every request served by the handler of a chain injector of no
\* sub-injectors is given to next, once, and ends as next ends it: nothing is
\* written, nothing sleeps, nothing aborts, no other handler runs.
C16_EmptyChainIsNext ==
    EmptyChain
    => \A q \in 1 .. Len(reqs) :
          IF Done(q)
          THEN /\ reqs[q].outcome = "ok"
               /\ Count(reqs[q].trace, "next") = 1
               /\ reqs[q].trace[Len(reqs[q].trace)] = Ev("next", "", 0)
               /\ Count(reqs[q].trace, "write") = 0
               /\ Count(reqs[q].trace, "sleep") = 0
               /\ Count(reqs[q].trace, "abort") = 0
               /\ EnteredIds(reqs[q].trace) = <<H.inj.id>>
          ELSE /\ reqs[q].pc = "call" /\ Count(reqs[q].trace, "next") = 0
               /\ ENABLED ChainCall(q)

\* a ChainInjector of no sub-injectors, with a Reporter, has served every request
C16_Witness ==
    /\ EmptyChain /\ H.h = "Chain" /\ H.inj.reporter
    /\ Len(reqs) = MaxRequests
    /\ \A q \in 1 .. Len(reqs) : Done(q) /\ reqs[q].outcome = "ok"

\* the events of a trace that are reports of the injector id
Reports(trace, id) ==
    Cardinality({k \in 1 .. Len(trace) : trace[k].e = "report" /\ trace[k].n = id})

\* the kinds of injector that report their start
ReportingKinds == {"Reject", "Error", "Slow", "Chain", "Random"}

\* C17: every injector that acts on a request reports its start to its
\* Reporter once for that request, before its effect and before the reports of
\* its sub-injectors: the report is the first thing its handler does.
C17_ReportOnceFirst ==
    (withReporter /\ ByInjector /\ ~H.inj.isnil
        /\ ~(H.h = "Random" /\ H.inj.mws = <<>>))
    => \A q \in 1 .. Len(reqs) :
          \A k \in 1 .. Len(reqs[q].trace) :
             LET e == reqs[q].trace[k] IN
             (e.e = "enter" /\ e.k \in ReportingKinds)
             => /\ k < Len(reqs[q].trace)
                   => reqs[q].trace[k + 1] = Ev("report", e.k, e.n)
                /\ Done(q) => Reports(reqs[q].trace, e.n) = 1

\* C18: percentDo is false for every sample when the percent is outside
\* [0.0, 1.0], and true exactly for the samples below the percent when it is
\* inside; so the handler of an enabled Fault is the injector's exactly when
\* the percent is inside the range and the sample drawn was below it.
C18_PercentDoBounds ==
    fault.state = "ok"
    => LET p == fault.opt.PercentOfRequests IN
       /\ \A rn \in Samples : percentDo(fault, rn) <=> (InRange(p) /\ rn < p)
       /\ (ByFault /\ fault.opt.Enabled /\ fault.opt.Injector # NilInjector)
           => /\ Len(randLog) = 1
              /\ (H.h # "Pass") <=> (InRange(p) /\ randLog[1].rn < p)

\* an enabled Fault made without NewFault, with the percent 1.1, has drawn the
\* sample 0.0 and has given every request to next
C18_Witness ==
    /\ ByFault /\ fault.state = "ok" /\ lastOp.op = "Fault" /\ fault.opt.Enabled
    /\ fault.opt.Injector.kind = "Reject" /\ ~fault.opt.Injector.isnil
    /\ fault.opt.PercentOfRequests = PercentOne + 1
    /\ randLog = <<[by |-> 0, rn |-> 0]>>
    /\ H.h = "Pass"
    /\ Len(reqs) = MaxRequests
    /\ \A q \in 1 .. Len(reqs) : Done(q) /\ reqs[q].trace = NextAlone

TerminalKinds == {"Reject", "Error", "Slow"}

\* the terminal injectors of a tree of chains, in the order of the flattened chain
RECURSIVE Flat(_)
Flat(i) ==
    IF i.kind \in TerminalKinds THEN <<i>>
    ELSE LET RECURSIVE Cat(_)
             Cat(k) == IF k > Len(i.mws) THEN <<>> ELSE Flat(i.mws[k]) \o Cat(k + 1)
         IN Cat(1)

\* a tree made of ChainInjectors and terminal injectors only
RECURSIVE ChainsOnly(_)
ChainsOnly(i) ==
    /\ ~i.isnil
    /\ i.kind \in TerminalKinds \cup {"Chain"}
    /\ \A k \in 1 .. Len(i.mws) : ChainsOnly(i.mws[k])

\* a flattened chain up to its first injector that ends the request
UpToEnding(is) ==
    LET ending == {k \in 1 .. Len(is) : is[k].kind \in {"Reject", "Error"}}
    IN IF ending = {} THEN is
       ELSE SubSeq(is, 1, CHOOSE k \in ending : \A j \in ending : k <= j)

\* the identities of the terminal injectors a request ran, in order
RECURSIVE TerminalsRun(_)
TerminalsRun(trace) ==
    IF trace = <<>> THEN <<>>
    ELSE IF trace[1].e = "enter" /\ trace[1].k \in TerminalKinds
    THEN <<trace[1].n>> \o TerminalsRun(Tail(trace))
    ELSE TerminalsRun(Tail(trace))

\* H is the handler of a ChainInjector that has a ChainInjector among its
\* sub-injectors
NestedChain ==
    /\ ByInjector /\ H.h = "Chain" /\ ChainsOnly(H.inj)
    /\ \E k \in 1 .. Len(H.inj.mws) : H.inj.mws[k].kind = "Chain"

\* C19: every request served by the handler of a chain that contains a chain
\* runs the terminal injectors of the flattened chain, in its order, up to the
\* first one that ends the request, and then next when none ends it.
C19_NestedChainFlattens ==
    NestedChain
    => \A q \in 1 .. Len(reqs) :
          Done(q) =>
             LET ran == UpToEnding(Flat(H.inj)) IN
             /\ TerminalsRun(reqs[q].trace) = [k \in 1 .. Len(ran) |-> ran[k].id]
             /\ Count(reqs[q].trace, "next")
                   = (IF Len(ran) = Len(Flat(H.inj))
                         /\ (ran = <<>> \/ ran[Len(ran)].kind = "Slow")
                      THEN 1 ELSE 0)

====
